---- MODULE Spec2Model ----
(***************************************************************************)
(* A model of the life_web simulation engine: src/src/biot.rs (genome,     *)
(* properties, the per-organism step, combat) and                          *)
(* src/src/biot_collection.rs (BiotCollection::new and ::step).            *)
(*                                                                         *)
(* Number representation (f32 in the source, fixed point here):            *)
(*   traits     in tenths            (one gene = 1, Intelligence gene = 100)*)
(*   life       in 1/10000           (base_life of weight 0.1 = 8000)       *)
(*   positions  in tenths of a world unit, velocities in tenths per tick   *)
(*   directions in thousandths       (a unit vector has length 1000)       *)
(*   a random draw r of gen_range(0., 1.) is r / DrawDen, r in 0..DrawDen-1*)
(* A Vec2 is [nan, x, y]: nan marks the NaN vector that normalize() of the *)
(* zero vector produces (0 * inf) and that every later operation keeps.    *)
(***************************************************************************)
EXTENDS Integers, Sequences, FiniteSets

\* ------------------------------------------------------------- bounds
\* World extent (screen_width(), screen_height()), in tenths of a unit.
Width == 8000
Height == 6000
\* Resolution of the random source: draws are 0/DrawDen .. (DrawDen-1)/DrawDen.
DrawDen == 2
\* The mutation loop of Biot::step runs at most MaxMutations times.
MaxMutations == 1
\* Genome::mutate draws which_gene among the first MutSlots slots.
MutSlots == 1
\* Organisms created by BiotCollection::new.
MaxInit == 3
\* Calls of BiotCollection::step.
MaxTicks == 2
\* A further step is taken only while the live set has at most this many.
MaxRestep == 1
\* Populations of at most RichInit start from the full choice of organisms.
RichInit == 1
\* Organisms of the crowded populations (MaxCrowd - 1 or MaxCrowd of them).
MaxCrowd == 6

\* -------------------------------------------------- program constants
GeneNone == 0
GeneAttack == 1
GeneDefense == 2
GenePhotosynthesis == 3
GeneMotion == 4
GeneIntelligence == 5
GenomeLen == 13
MaxAge == 10000
AdultFactor == 4
NthNeighbour == 5
CrowdDist2 == 200
CollisionDist2 == 50

Genes == GeneNone..GeneIntelligence
Draws == 0..(DrawDen - 1)

\* --------------------------------------------------------- arithmetic
\* Division rounding toward zero.
TDiv(a, b) == IF a >= 0 THEN a \div b ELSE -((-a) \div b)

\* Rust's % : the remainder has the sign of the dividend.
Rem(a, b) == a - b * TDiv(a, b)

\* fn modulus(a, b) = ((a % b) + b) % b
modulus(a, b) == Rem(Rem(a, b) + b, b)

RECURSIVE SqrtBits(_, _, _)
\* Integer square root by bisection: the largest r with r * r <= n, lo <= r < hi.
SqrtBits(n, lo, hi) ==
    IF hi - lo <= 1 THEN lo
    ELSE LET mid == (lo + hi) \div 2
         IN  IF mid * mid <= n THEN SqrtBits(n, mid, hi) ELSE SqrtBits(n, lo, mid)

ISqrt(n) == SqrtBits(n, 0, 46340)

\* A squared distance in world units, in squared tenths.
Dist2Units(d2) == d2 * 100

\* ------------------------------------------------------------- Vec2
Vec(x, y) == [nan |-> FALSE, x |-> x, y |-> y]
NaNVec == [nan |-> TRUE, x |-> 0, y |-> 0]

VecAdd(a, b) == IF a.nan \/ b.nan THEN NaNVec ELSE Vec(a.x + b.x, a.y + b.y)

\* dir * speed, dir in thousandths.
VecScale(dir, speed) ==
    IF dir.nan THEN NaNVec ELSE Vec(TDiv(dir.x * speed, 1000), TDiv(dir.y * speed, 1000))

\* speed *= 0.9
VecDecay(v) == IF v.nan THEN NaNVec ELSE Vec(TDiv(v.x * 9, 10), TDiv(v.y * 9, 10))

Abs(a) == IF a < 0 THEN -a ELSE a

\* Vec2::normalize: v * (1 / length); the zero vector gives NaN (0 * inf).
\* Short vectors are scaled up first so that the integer length is precise.
normalize(dx, dy) ==
    IF dx = 0 /\ dy = 0 THEN NaNVec
    ELSE LET s == IF Abs(dx) <= 300 /\ Abs(dy) <= 300 THEN 100 ELSE 1
             len == ISqrt(dx * s * dx * s + dy * s * dy * s)
         IN  Vec(TDiv(dx * s * 1000, len), TDiv(dy * s * 1000, len))

\* Squared Euclidean distance of two points (TreePoint::distance_2).
distance_2(p, q) == (p.x - q.x) * (p.x - q.x) + (p.y - q.y) * (p.y - q.y)

\* ------------------------------------------------------------ Genome
\* Genome::mutate: genes[which_gene] = Gene::random().
Genome_mutate(genes, which_gene, gene) == [genes EXCEPT ![which_gene] = gene]

\* --------------------------------------------------------- Properties
\* Properties::reset
reset(p) == [attack |-> 0, defense |-> 0, photosynthesis |-> 0, motion |-> 0,
             intelligence |-> 0]

\* One arm of the match in adjust_to_genome.
AddGene(p, gene) ==
    CASE gene = GeneNone -> p
      [] gene = GeneAttack -> [p EXCEPT !.attack = @ + 1]
      [] gene = GeneDefense -> [p EXCEPT !.defense = @ + 1]
      [] gene = GenePhotosynthesis -> [p EXCEPT !.photosynthesis = @ + 1]
      [] gene = GeneMotion -> [p EXCEPT !.motion = @ + 1]
      [] gene = GeneIntelligence -> [p EXCEPT !.intelligence = @ + 100]

RECURSIVE Accumulate(_, _, _)
\* for gene in genome.genes() { match gene ... }
Accumulate(p, genes, i) ==
    IF i > Len(genes) THEN p ELSE Accumulate(AddGene(p, genes[i]), genes, i + 1)

\* A mutant of adjust_to_genome: the reset is forgotten.
adjust_no_reset(p, genes) == Accumulate(p, genes, 1)

\* Properties::adjust_to_genome
adjust_to_genome(p, genes) == Accumulate(reset(p), genes, 1)

\* Properties::metabolism, in 1/10000.
metabolism(p) == 2 * (450 * p.attack + 230 * p.defense + 250 * p.motion
                      + 10 * p.intelligence)

\* Properties::weight, in tenths.
weight(p) == p.attack + p.defense + p.photosynthesis + p.motion

PropertiesDefault == [attack |-> 0, defense |-> 0, photosynthesis |-> 0, motion |-> 0,
                      intelligence |-> 0]

\* -------------------------------------------------------------- Biot
\* A biot is [id, stats: [life, pos, speed, age], genome, properties]; id is a
\* ghost field (the source has no organism identity) naming the organism in
\* the properties below.

\* Biot::base_life = 8.0 * weight, in 1/10000.
base_life(b) == 8000 * weight(b.properties)

\* A mutant of is_dead: an organism of energy exactly 0 counts as alive.
is_dead_strict(b) == b.stats.life < 0 \/ b.stats.age >= MaxAge

\* Biot::is_dead
is_dead(b) == b.stats.life <= 0 \/ b.stats.age >= MaxAge

\* Biot::is_alive, the predicate of retain.
is_alive(b) == ~is_dead(b)

\* A mutant of is_stronger: equal strength counts as stronger.
is_stronger_equal(b, other) ==
    10 * b.properties.attack >= 10 * other.properties.attack + 8 * other.properties.defense

\* Biot::is_stronger: attack > other.attack + other.defense * 0.8
is_stronger(b, other) ==
    10 * b.properties.attack > 10 * other.properties.attack + 8 * other.properties.defense

\* Biot::accelerate: speed += dir * speed
accelerate(b, dir, speed) ==
    [b EXCEPT !.stats.speed = VecAdd(@, VecScale(dir, speed))]

\* Biot::random_move: accelerate along normalize(r1 - 0.5, r2 - 0.5).
random_move(b, speed, r) ==
    accelerate(b, normalize(2 * r[1] - DrawDen, 2 * r[2] - DrawDen), speed)

\* Biot::mutate: mutate the genome, then recompute the properties.
mutate(b, pick) ==
    LET g == Genome_mutate(b.genome, pick[1], pick[2])
    IN  [b EXCEPT !.genome = g, !.properties = adjust_to_genome(b.properties, g)]

RECURSIVE MutateLoop(_, _, _, _)
\* while rand::gen_range(0., 1.) < 0.2 { off.mutate(); }
\* coins are the loop's draws, picks the draws of each mutate; the loop is cut
\* after MaxMutations rounds.
MutateLoop(off, coins, picks, i) ==
    IF i <= MaxMutations /\ 5 * coins[i] < DrawDen
    THEN MutateLoop(mutate(off, picks[i]), coins, picks, i + 1)
    ELSE off

\* ------------------------------------------------------ spatial index
\* The R-tree holds one TreePoint [idx, x, y] per organism of the live set,
\* built from the positions at the start of the step (indices from 1 here).
bulk_load(bs) ==
    [i \in 1..Len(bs) |-> [idx |-> i, x |-> bs[i].stats.pos.x, y |-> bs[i].stats.pos.y]]

\* nearest_neighbor_iter_with_distance_2(pos).nth(k): the squared distance of
\* the element at 0-based place k of the ascending sequence, <<>> if there is
\* none. Ties do not change the distance found at a place.
nth_distance_2(t, pos, k) ==
    IF Len(t) <= k THEN <<>>
    ELSE LET D == {distance_2(t[n], pos) : n \in 1..Len(t)}
             d == CHOOSE e \in D :
                      /\ Cardinality({n \in 1..Len(t) : distance_2(t[n], pos) < e}) <= k
                      /\ Cardinality({n \in 1..Len(t) : distance_2(t[n], pos) <= e}) > k
         IN  <<d>>

\* locate_within_distance(p, max_squared_radius): rstar compares the squared
\* distance with its second argument, inclusively.
locate_within_distance(t, p, d2) ==
    {n \in 1..Len(t) : distance_2(t[n], p) <= Dist2Units(d2)}

\* ---------------------------------------------------------- Biot::step
\* A mutant of the reproduction condition: strictly above the threshold.
Reproduces_above(b, t) ==
    /\ b.stats.life > base_life(b) * AdultFactor
    /\ LET close_by == nth_distance_2(t, b.stats.pos, NthNeighbour)
       IN  close_by = <<>> \/ close_by[1] > Dist2Units(CrowdDist2)

\* A mutant of the crowding test: a 6th nearest exactly at 200 does not crowd.
Reproduces_inclusive(b, t) ==
    /\ b.stats.life >= base_life(b) * AdultFactor
    /\ LET close_by == nth_distance_2(t, b.stats.pos, NthNeighbour)
       IN  close_by = <<>> \/ close_by[1] >= Dist2Units(CrowdDist2)

\* The condition of reproduction: adult, and the 6th nearest point of the
\* snapshot (the organism itself included) is absent or farther than 200.
Reproduces(b, t) ==
    /\ b.stats.life >= base_life(b) * AdultFactor
    /\ LET close_by == nth_distance_2(t, b.stats.pos, NthNeighbour)
       IN  close_by = <<>> \/ close_by[1] > Dist2Units(CrowdDist2)

\* The offspring: a clone with age 0, mutated, with its own base life and one
\* random impulse of 1.5.
Offspring(b, d) ==
    LET c == [b EXCEPT !.stats.age = 0]
        m == MutateLoop(c, d.coins, d.picks, 1)
        l == [m EXCEPT !.stats.life = base_life(m)]
    IN  random_move(l, 15, d.offDir)

\* A mutant of the reproduction phase: the parent keeps its energy.
AfterReproduction_keep(b, t) == b

\* The parent after the reproduction phase.
AfterReproduction(b, t) ==
    IF Reproduces(b, t)
    THEN [b EXCEPT !.stats.life = (AdultFactor - 1) * base_life(b)]
    ELSE b

\* pos += speed; pos.x = modulus(pos.x, screen_width()); same for y.
MovePosition(b) ==
    LET p == VecAdd(b.stats.pos, b.stats.speed)
    IN  [b EXCEPT !.stats.pos =
            IF p.nan THEN NaNVec ELSE Vec(modulus(p.x, Width), modulus(p.y, Height))]

\* life += (photosynthesis - metabolism()) * 0.4
EnergyUpdate(b) ==
    [b EXCEPT !.stats.life =
        @ + TDiv((1000 * b.properties.photosynthesis - metabolism(b.properties)) * 4, 10)]

\* A mutant of the motion decision: the draw is compared with <=, so that a
\* draw of 0 fires it without motion; 7 * motion / weight is then NaN or
\* infinite for a weight of 0, and so is the velocity.
MotionDecision_inclusive(b, feed_dir, d) ==
    IF 50 * d.moveCoin <= b.properties.motion * DrawDen
    THEN IF weight(b.properties) = 0
         THEN [b EXCEPT !.stats.speed = NaNVec]
         ELSE LET speed == TDiv(70 * b.properties.motion, weight(b.properties))
              IN  IF b.properties.intelligence > 0 /\ feed_dir # <<>>
                  THEN accelerate(b, feed_dir[1], speed)
                  ELSE random_move(b, speed, d.moveDir)
    ELSE b

\* if rand < 0.2 * motion { speed = 7 * motion / weight; ... }
MotionDecision(b, feed_dir, d) ==
    IF 50 * d.moveCoin < b.properties.motion * DrawDen
    THEN LET speed == TDiv(70 * b.properties.motion, weight(b.properties))
         IN  IF b.properties.intelligence > 0 /\ feed_dir # <<>>
             THEN accelerate(b, feed_dir[1], speed)
             ELSE random_move(b, speed, d.moveDir)
    ELSE b

\* A mutant of Biot::step: the mutations are applied to the organism itself
\* before it is cloned.
Biot_step_selfmut(b, t, feed_dir, d) ==
    LET r == AfterReproduction(b, t)
        m == MovePosition(r)
        v == [m EXCEPT !.stats.speed = VecDecay(@)]
        e == EnergyUpdate(v)
        a == MotionDecision(e, feed_dir, d)
        o == Offspring(b, d)
    IN  [self |-> IF Reproduces(b, t)
                  THEN [a EXCEPT !.stats.age = @ + 1, !.genome = o.genome,
                                 !.properties = o.properties]
                  ELSE [a EXCEPT !.stats.age = @ + 1],
         off |-> IF Reproduces(b, t) THEN <<o>> ELSE <<>>,
         repro |-> r]

\* A mutant of Biot::step: a call that returns an offspring leaves the age
\* as it was.
Biot_step_ageless(b, t, feed_dir, d) ==
    LET r == AfterReproduction(b, t)
        m == MovePosition(r)
        v == [m EXCEPT !.stats.speed = VecDecay(@)]
        e == EnergyUpdate(v)
        a == MotionDecision(e, feed_dir, d)
    IN  [self |-> IF Reproduces(b, t) THEN a ELSE [a EXCEPT !.stats.age = @ + 1],
         off |-> IF Reproduces(b, t) THEN <<Offspring(b, d)>> ELSE <<>>,
         repro |-> r]

\* Biot::step: the organism after the call and the Option of its offspring;
\* repro is the organism right after the reproduction phase (ghost).
Biot_step(b, t, feed_dir, d) ==
    LET r == AfterReproduction(b, t)
        m == MovePosition(r)
        v == [m EXCEPT !.stats.speed = VecDecay(@)]
        e == EnergyUpdate(v)
        a == MotionDecision(e, feed_dir, d)
    IN  [self |-> [a EXCEPT !.stats.age = @ + 1],
         off |-> IF Reproduces(b, t) THEN <<Offspring(b, d)>> ELSE <<>>,
         repro |-> r]

\* The draws one call of Biot::step can consume; a draw the call does not
\* make is fixed, so that each outcome is produced once. The draw of the
\* motion decision is made in every call.
StepDraws(b, t, feed_dir) ==
    LET rep == Reproduces(b, t)
        mov == b.properties.motion > 0
        rnd == mov /\ ~(b.properties.intelligence > 0 /\ feed_dir # <<>>)
    IN  [coins : IF rep THEN [1..MaxMutations -> Draws] ELSE {[i \in 1..MaxMutations |-> 1]},
         picks : IF rep THEN [1..MaxMutations -> (1..MutSlots) \X Genes]
                        ELSE {[i \in 1..MaxMutations |-> <<1, GeneNone>>]},
         offDir : IF rep THEN Draws \X Draws ELSE {<<0, 0>>},
         moveCoin : Draws,
         moveDir : IF rnd THEN Draws \X Draws ELSE {<<0, 0>>}]

\* ------------------------------------------------------ Biot::interact
\* dist < 10.0 * (weight_i + weight_j), on the current positions.
InContact(bi, bj) ==
    /\ ~bi.stats.pos.nan /\ ~bj.stats.pos.nan
    /\ LET r == 10 * (weight(bi.properties) + weight(bj.properties))
       IN  distance_2(bi.stats.pos, bj.stats.pos) < r * r

\* life * 0.8
Gain(life) == TDiv(life * 8, 10)

\* The branch interact takes: <<winner, loser>>, or <<>> when it changes
\* nothing (no contact, or neither is stronger; the first is tried first).
Outcome(bs, i, j) ==
    IF InContact(bs[i], bs[j])
    THEN IF is_stronger(bs[i], bs[j]) THEN <<i, j>>
         ELSE IF is_stronger(bs[j], bs[i]) THEN <<j, i>>
         ELSE <<>>
    ELSE <<>>

\* A mutant of interact: the winner takes the whole energy of the loser.
interact_all(bs, i, j) ==
    LET w == Outcome(bs, i, j)
    IN  IF w = <<>> THEN bs
        ELSE [bs EXCEPT ![w[1]].stats.life = @ + bs[w[2]].stats.life,
                        ![w[2]].stats.life = 0]

\* A mutant of interact: the loser keeps its energy.
interact_noreset(bs, i, j) ==
    LET w == Outcome(bs, i, j)
    IN  IF w = <<>> THEN bs
        ELSE [bs EXCEPT ![w[1]].stats.life = @ + Gain(bs[w[2]].stats.life)]

\* Biot::interact: life of the winner += life of the loser * 0.8, then the
\* loser's life = 0.
interact(bs, i, j) ==
    LET w == Outcome(bs, i, j)
    IN  IF w = <<>> THEN bs
        ELSE [bs EXCEPT ![w[1]].stats.life = @ + Gain(bs[w[2]].stats.life),
                        ![w[2]].stats.life = 0]

\* ------------------------------------------------------ BiotCollection
VARIABLES
    biots,      \* the live set (Vec<Biot>)
    offsprings, \* the side buffer (Vec<Biot>)
    tree,       \* the spatial index of the step in progress
    pc,         \* the place in BiotCollection::step: idle, update, interact, retain, append
    idx,        \* the loop variable of the update phase
    fTodo,      \* interaction phase: the points the outer loop has not visited
    curF,       \* interaction phase: the point of the outer loop (0: none)
    sTodo,      \* interaction phase: the points left to the inner loop
    calls,      \* ghost: the calls of Biot::interact in this step, in order
    ticks,      \* ghost: completed steps
    nextId,     \* ghost: the next organism id
    before,     \* ghost: the live set when the step began
    lastStep,   \* ghost: the last call of Biot::step, <<>> when the last action was another
    lastFight,  \* ghost: the last call of Biot::interact, <<>> likewise
    fought,     \* ghost: the live set when the interaction phase ended
    lost,       \* ghost: ids whose energy a combat of this step set to 0
    zeroed,     \* ghost: those of lost that have not since won energy > 0
    stepped     \* ghost: the live set when the update phase ended, <<>> outside the interaction phase

vars == <<biots, offsprings, tree, pc, idx, fTodo, curF, sTodo, calls, ticks, nextId,
          before, lastStep, lastFight, fought, lost, zeroed, stepped>>

\* The feed directions the search of BiotCollection::step can end with (an
\* Option, <<>> for None): the first point in ascending distance, other than
\* the organism's own, within intelligence^2 * 1600, that it is stronger
\* than. Points at equal distance come in any order.
FeedDirs(bs, t, i) ==
    LET b == bs[i]
        int == b.properties.intelligence
        pos == b.stats.pos
        max_detection_distance == int * int * 16 * 100
        C == {n \in 1..Len(t) : /\ n # i
                                /\ distance_2(t[n], pos) <= max_detection_distance
                                /\ is_stronger(b, bs[n])}
        F == {n \in C : \A m \in C : distance_2(t[n], pos) <= distance_2(t[m], pos)}
    IN  IF int > 0 /\ C # {}
        THEN {<<normalize(t[n].x - pos.x, t[n].y - pos.y)>> : n \in F}
        ELSE {<<>>}

\* Ghost: the ids a call interact(bs, i, j) takes all energy from, and the
\* ids it gives energy > 0.
Zeroed(bs, i, j) ==
    LET w == Outcome(bs, i, j) IN IF w = <<>> THEN {} ELSE {bs[w[2]].id}
Fed(bs, i, j) ==
    LET w == Outcome(bs, i, j)
    IN  IF w # <<>> /\ Gain(bs[w[2]].stats.life) > 0 THEN {bs[w[1]].id} ELSE {}

\* A mutant of the pair filter: every ordered pair of distinct points.
first_less_distinct(f, s) == f # s

\* if f.idx < s.idx
first_less(f, s) == f < s

\* self.offsprings.clear(); let tree = RTree::bulk_load(...)
BeginStep ==
    /\ pc = "idle"
    /\ ticks < MaxTicks
    /\ ticks = 0 \/ Len(biots) <= MaxRestep
    /\ \A i \in 1..Len(biots) : ~biots[i].stats.pos.nan
    /\ offsprings' = <<>>
    /\ tree' = bulk_load(biots)
    /\ idx' = 1
    /\ pc' = "update"
    /\ before' = biots
    /\ calls' = <<>>
    /\ lastStep' = <<>>
    /\ lastFight' = <<>>
    /\ fought' = <<>>
    /\ lost' = {}
    /\ zeroed' = {}
    /\ UNCHANGED <<biots, fTodo, curF, sTodo, ticks, nextId, stepped>>

\* One round of `for idx in 0..self.biots.len()`: the feed direction, then
\* Biot::step, then the push of the offspring.
UpdateBiot ==
    /\ pc = "update"
    /\ idx <= Len(biots)
    /\ \E feed_dir \in FeedDirs(biots, tree, idx) :
         \E d \in StepDraws(biots[idx], tree, feed_dir) :
           LET res == Biot_step(biots[idx], tree, feed_dir, d)
               off == [n \in 1..Len(res.off) |-> [res.off[n] EXCEPT !.id = nextId]]
           IN  /\ biots' = [biots EXCEPT ![idx] = res.self]
               /\ offsprings' = offsprings \o off
               /\ nextId' = nextId + Len(off)
               /\ lastStep' = <<[idx |-> idx, pre |-> biots[idx], repro |-> res.repro,
                                 feed |-> feed_dir, off |-> off]>>
    /\ idx' = idx + 1
    /\ lastFight' = <<>>
    /\ UNCHANGED <<tree, pc, fTodo, curF, sTodo, calls, ticks, before, fought, lost, zeroed,
                   stepped>>

\* The update loop is over: `for f in &tree` begins.
EndUpdate ==
    /\ pc = "update"
    /\ idx > Len(biots)
    /\ pc' = "interact"
    /\ fTodo' = 1..Len(tree)
    /\ curF' = 0
    /\ sTodo' = {}
    /\ lastStep' = <<>>
    /\ stepped' = biots
    /\ UNCHANGED <<biots, offsprings, tree, idx, calls, ticks, nextId, before, lastFight,
                   fought, lost, zeroed>>

\* The outer loop takes its next point f, in the order of the tree's
\* iteration (any order), and queries the points within the collision
\* distance; those failing `f.idx < s.idx` are passed over without effect.
NextF ==
    /\ pc = "interact"
    /\ sTodo = {}
    /\ \E f \in fTodo :
         /\ curF' = f
         /\ fTodo' = fTodo \ {f}
         /\ sTodo' = {s \in locate_within_distance(tree, tree[f], CollisionDist2) :
                         first_less(f, s)}
    /\ lastFight' = <<>>
    /\ UNCHANGED <<biots, offsprings, tree, pc, idx, calls, ticks, nextId, before, lastStep,
                   fought, lost, zeroed, stepped>>

\* The inner loop takes its next point s, in any order:
\* Biot::interact(&mut self.biots, f.idx, s.idx).
VisitS ==
    /\ pc = "interact"
    /\ \E s \in sTodo :
         /\ sTodo' = sTodo \ {s}
         /\ biots' = interact(biots, curF, s)
         /\ calls' = Append(calls, <<curF, s>>)
         /\ lastFight' = <<[i |-> curF, j |-> s, pre |-> biots]>>
         /\ lost' = lost \cup Zeroed(biots, curF, s)
         /\ zeroed' = (zeroed \cup Zeroed(biots, curF, s)) \ Fed(biots, curF, s)
    /\ UNCHANGED <<offsprings, tree, pc, idx, fTodo, curF, ticks, nextId, before, lastStep,
                   fought, stepped>>

\* Both loops are over.
EndInteract ==
    /\ pc = "interact"
    /\ sTodo = {}
    /\ fTodo = {}
    /\ pc' = "retain"
    /\ lastFight' = <<>>
    /\ UNCHANGED <<biots, offsprings, tree, idx, fTodo, curF, sTodo, calls, ticks, nextId,
                   before, lastStep, fought, lost, zeroed, stepped>>

\* self.biots.retain(Biot::is_alive)
Retain ==
    /\ pc = "retain"
    /\ biots' = SelectSeq(biots, is_alive)
    /\ pc' = "append"
    /\ fought' = biots
    /\ stepped' = <<>>
    /\ UNCHANGED <<offsprings, tree, idx, fTodo, curF, sTodo, calls, ticks, nextId, before,
                   lastStep, lastFight, lost, zeroed>>

\* A mutant of the append: the offspring are copied and stay in the buffer.
AppendOffsprings_keep ==
    /\ pc = "append"
    /\ biots' = biots \o offsprings
    /\ pc' = "idle"
    /\ ticks' = ticks + 1
    /\ UNCHANGED <<offsprings, tree, idx, fTodo, curF, sTodo, calls, nextId, before, lastStep,
                   lastFight, fought, lost, zeroed, stepped>>

\* self.biots.append(&mut self.offsprings): the buffer is left empty.
AppendOffsprings ==
    /\ pc = "append"
    /\ biots' = biots \o offsprings
    /\ offsprings' = <<>>
    /\ pc' = "idle"
    /\ ticks' = ticks + 1
    /\ UNCHANGED <<tree, idx, fTodo, curF, sTodo, calls, nextId, before, lastStep, lastFight,
                   fought, lost, zeroed, stepped>>

\* ---------------------------------------------------------------- Init
\* A genome: the given genes, then None up to the length of 13.
GenomeOf(prefix) ==
    [i \in 1..GenomeLen |-> IF i <= Len(prefix) THEN prefix[i] ELSE GeneNone]

\* The genomes Genome::random() is taken to draw: a blank (weight 0), a
\* thinker (weight 0, intelligent), a plant, a hunter (attack, motion,
\* intelligence) and an apex (more attack, defense).
Blank == GenomeOf(<<>>)
Thinker == GenomeOf(<<GeneIntelligence>>)
Plant == GenomeOf(<<GenePhotosynthesis, GenePhotosynthesis>>)
Hunter == GenomeOf(<<GeneAttack, GeneMotion, GeneIntelligence>>)
Apex == GenomeOf(<<GeneAttack, GeneAttack, GeneDefense>>)
GenomePool == {Blank, Thinker, Plant, Hunter, Apex}
CrowdGenomes == {Plant, Hunter, Apex}

\* The positions Stats::position_randomly() is taken to draw (tenths): three
\* on a line 3 units apart at the world's origin, one at the far corner.
PosA == Vec(0, 0)
PosB == Vec(30, 0)
PosC == Vec(60, 0)
PosFar == Vec(Width - 10, Height - 10)

\* Biot::random_biot with the given draws: properties from the genome, stats
\* default but for the position, life = base_life.
random_biot(genome, pos, id) ==
    LET b == [id |-> id,
              stats |-> [life |-> 0, pos |-> pos, speed |-> Vec(0, 0), age |-> 0],
              genome |-> genome,
              properties |-> adjust_to_genome(PropertiesDefault, genome)]
    IN  [b EXCEPT !.stats.life = base_life(b)]

\* An organism as earlier steps can have left it: "new" as created, "adult"
\* grown to the reproduction threshold, "old" one step before the age limit,
\* "moving" with the velocity of one motion impulse along -x.
Grown(b, kind) ==
    CASE kind = "new" -> b
      [] kind = "adult" -> [b EXCEPT !.stats.life = AdultFactor * base_life(b)]
      [] kind = "old" -> [b EXCEPT !.stats.age = MaxAge - 1]
      [] kind = "moving" ->
            IF b.properties.motion > 0
            THEN accelerate(b, normalize(-1, 0),
                            TDiv(70 * b.properties.motion, weight(b.properties)))
            ELSE b

\* The populations a step starts from. One organism (up to RichInit): any pool
\* genome, grown in any way, at the origin or the far corner. A pair: any two
\* pool genomes as created or moving, the first at the origin. A crowd (up to
\* MaxInit): plants, hunters and apexes as created, near the origin.
StartBiots(n) ==
    IF n <= RichInit
    THEN {[i \in 1..n |-> Grown(random_biot(gs[i], ps[i], i), ks[i])] :
             gs \in [1..n -> GenomePool], ps \in [1..n -> {PosA, PosFar}],
             ks \in [1..n -> {"new", "adult", "old", "moving"}]}
    ELSE IF n = RichInit + 1
    THEN {[i \in 1..n |-> Grown(random_biot(gs[i], IF i = 1 THEN PosA ELSE ps[i], i), ks[i])] :
             gs \in [1..n -> GenomePool], ps \in [1..n -> {PosA, PosB, PosC, PosFar}],
             ks \in [1..n -> {"new", "moving"}]}
    ELSE {[i \in 1..n |-> random_biot(gs[i], ps[i], i)] :
             gs \in [1..n -> CrowdGenomes],
             ps \in {q \in [1..n -> {PosA, PosB, PosFar}] :
                        /\ q[1] = PosA
                        /\ \A i \in 2..n : q[i] = PosB => i = 2
                        /\ \A i \in 2..n : q[i] = PosFar => i = n}}

Init ==
    /\ \E n \in 0..MaxInit : biots \in StartBiots(n)
    /\ offsprings = <<>>
    /\ tree = <<>>
    /\ pc = "idle"
    /\ idx = 1
    /\ fTodo = {}
    /\ curF = 0
    /\ sTodo = {}
    /\ calls = <<>>
    /\ ticks = 0
    /\ nextId = Len(biots) + 1
    /\ before = <<>>
    /\ lastStep = <<>>
    /\ lastFight = <<>>
    /\ fought = <<>>
    /\ lost = {}
    /\ zeroed = {}
    /\ stepped = <<>>

Next ==
    \/ BeginStep
    \/ UpdateBiot
    \/ EndUpdate
    \/ NextF
    \/ VisitS
    \/ EndInteract
    \/ Retain
    \/ AppendOffsprings

Spec == Init /\ [][Next]_vars

\* ------------------------------------------------- crowded populations
\* Positions Stats::position_randomly() is taken to draw around one organism:
\* the organism at the centre, four at squared distance exactly 200 from it
\* (10 units along each axis), a sixth 5 units away (squared distance 25, a
\* collision), 12 units away (144), 14.2 units away (201.64) or far off, and
\* any further ones far off and apart.
CrowdCentre == Vec(1000, 1000)
SixthPositions == {Vec(1000, 1050), Vec(1000, 1120), Vec(1000, 1142), Vec(5000, 5000)}
CrowdPos(i, sixth) ==
    CASE i = 1 -> CrowdCentre
      [] i = 2 -> Vec(1100, 1100)
      [] i = 3 -> Vec(900, 1100)
      [] i = 4 -> Vec(1100, 900)
      [] i = 5 -> Vec(900, 900)
      [] i = 6 -> sixth
      [] OTHER -> Vec(3000 + 500 * (i - 6), 3000)

\* A plant or a hunter, as created or adult, among plants as created.
CrowdBiots(n) ==
    {[i \in 1..n |-> Grown(random_biot(IF i = 1 THEN g ELSE Plant, CrowdPos(i, s), i),
                           IF i = 1 THEN k ELSE "new")] :
        g \in {Plant, Hunter}, s \in SixthPositions, k \in {"new", "adult"}}

InitCrowd ==
    /\ \E n \in (MaxCrowd - 1)..MaxCrowd : biots \in CrowdBiots(n)
    /\ offsprings = <<>>
    /\ tree = <<>>
    /\ pc = "idle"
    /\ idx = 1
    /\ fTodo = {}
    /\ curF = 0
    /\ sTodo = {}
    /\ calls = <<>>
    /\ ticks = 0
    /\ nextId = Len(biots) + 1
    /\ before = <<>>
    /\ lastStep = <<>>
    /\ lastFight = <<>>
    /\ fought = <<>>
    /\ lost = {}
    /\ zeroed = {}
    /\ stepped = <<>>

SpecCrowd == InitCrowd /\ [][Next]_vars

\* ============================================================== claims
\* Readings of the state used by the properties below, written out from the
\* source's formulas rather than through the operators of the model.
Ids(bs) == {bs[k].id : k \in 1..Len(bs)}
Range(q) == {q[k] : k \in 1..Len(q)}
Weight10(b) == b.properties.attack + b.properties.defense + b.properties.photosynthesis
               + b.properties.motion
Threshold(b) == 4 * 8000 * Weight10(b)
Stronger(a, b) ==
    10 * a.properties.attack > 10 * b.properties.attack + 8 * b.properties.defense
\* Current distance below 10 * (weight a + weight b).
Touching(a, b) ==
    /\ ~a.stats.pos.nan /\ ~b.stats.pos.nan
    /\ (a.stats.pos.x - b.stats.pos.x) * (a.stats.pos.x - b.stats.pos.x)
         + (a.stats.pos.y - b.stats.pos.y) * (a.stats.pos.y - b.stats.pos.y)
       < (10 * (Weight10(a) + Weight10(b))) * (10 * (Weight10(a) + Weight10(b)))
\* Squared distance of two points of the snapshot, in squared tenths.
Snap2(i, j) ==
    (tree[i].x - tree[j].x) * (tree[i].x - tree[j].x)
    + (tree[i].y - tree[j].y) * (tree[i].y - tree[j].y)
Life(b) == b.stats.life
\* 0.8 * x
Part08(x) == IF x >= 0 THEN (8 * x) \div 10 ELSE -((8 * (-x)) \div 10)
StepDone == pc = "idle" /\ ticks >= 1

\* The effect of one call interact(i, j) on the two energies: a, b before,
\* a2, b2 after, fights telling whether the pair is taken to fight.
Resolved(a, b, a2, b2, fights) ==
    /\ (fights /\ Stronger(a, b) /\ ~Stronger(b, a))
         => Life(a2) = Life(a) + Part08(Life(b)) /\ Life(b2) = 0
    /\ (fights /\ Stronger(b, a) /\ ~Stronger(a, b))
         => Life(b2) = Life(b) + Part08(Life(a)) /\ Life(a2) = 0
    /\ (~fights \/ (~Stronger(a, b) /\ ~Stronger(b, a)))
         => Life(a2) = Life(a) /\ Life(b2) = Life(b)

PairCase(a, b) ==
    /\ Len(before) = 2
    /\ Stronger(before[a], before[b])
    /\ Life(before[a]) < Threshold(before[a])
    /\ Life(before[b]) < Threshold(before[b])
\* Its outcome: only a is left, with its updated energy plus 0.8 of b's.
PairOutcome(a, b) ==
    /\ Len(biots) = 1
    /\ biots[1].id = before[a].id
    /\ Life(biots[1]) = Life(EnergyUpdate(before[a])) + Part08(Life(EnergyUpdate(before[b])))
Dist2Before(a, b) ==
    (before[a].stats.pos.x - before[b].stats.pos.x) * (before[a].stats.pos.x - before[b].stats.pos.x)
    + (before[a].stats.pos.y - before[b].stats.pos.y) * (before[a].stats.pos.y - before[b].stats.pos.y)

C3_AsStated ==
    (StepDone /\ Len(before) = 1 /\ Life(before[1]) >= Threshold(before[1]))
       => /\ Len(biots) = 2
          /\ biots[2].stats.age = 0
          /\ biots[2].id # before[1].id

\* C3 (amended): the same for a single organism of positive weight that is
\* younger than 9999 steps.
C3_SingleAdult ==
    (/\ StepDone
     /\ Len(before) = 1
     /\ Life(before[1]) >= Threshold(before[1])
     /\ Weight10(before[1]) > 0
     /\ before[1].stats.age < MaxAge - 1)
       => /\ Len(biots) = 2
          /\ biots[1].id = before[1].id
          /\ biots[2].stats.age = 0
          /\ biots[2].id # before[1].id

\* C3 witness: a single adult has reproduced, its offspring mutated.
C3_Witness ==
    /\ StepDone
    /\ Len(before) = 1
    /\ Life(before[1]) >= Threshold(before[1])
    /\ Weight10(before[1]) > 0
    /\ Len(biots) = 2
    /\ biots[2].genome # before[1].genome

\* At most 5 points of the snapshot, the organism's own included, lie within
\* squared distance 200 of it: no crowding neighbour.
NotCrowded(b) ==
    Cardinality({n \in 1..Len(tree) :
        (tree[n].x - b.stats.pos.x) * (tree[n].x - b.stats.pos.x)
        + (tree[n].y - b.stats.pos.y) * (tree[n].y - b.stats.pos.y) <= 200 * 100}) <= 5

\* C4: a call of Biot::step on an organism at or above 4 * base_life with no
\* crowding neighbour returns one offspring of age 0 whose energy is the base
\* life of its own properties, and its reproduction phase leaves the parent
\* with 3 * base_life; below the threshold it returns None and the energy is
\* not reset; no call returns more than one offspring.
C4_Reproduction ==
    lastStep # <<>> =>
       LET c == lastStep[1]
       IN  /\ Len(c.off) <= 1
           /\ (Life(c.pre) >= Threshold(c.pre) /\ NotCrowded(c.pre))
                => /\ Len(c.off) = 1
                   /\ c.off[1].stats.age = 0
                   /\ Life(c.off[1]) = 8000 * Weight10(c.off[1])
                   /\ Life(c.repro) = 3 * 8000 * Weight10(c.pre)
                   /\ offsprings # <<>> /\ offsprings[Len(offsprings)] = c.off[1]
           /\ Life(c.pre) < Threshold(c.pre)
                => /\ c.off = <<>>
                   /\ Life(c.repro) = Life(c.pre)

\* C4 witness: an organism exactly at its threshold, of positive weight, has
\* produced a mutated offspring of another weight.
C4_Witness ==
    /\ lastStep # <<>>
    /\ LET c == lastStep[1]
       IN  /\ Life(c.pre) = Threshold(c.pre)
           /\ Weight10(c.pre) > 0
           /\ Len(c.off) = 1
           /\ Weight10(c.off[1]) # Weight10(c.pre)

\* C5: an organism is dead exactly when energy <= 0 or age >= 10000, and after
\* the prune of a step exactly the organisms of the live set that are dead
\* after the interaction phase are gone, the others kept as they were.
C5_Prune ==
    /\ \A b \in Range(biots) \cup Range(offsprings) :
          is_dead(b) <=> (Life(b) <= 0 \/ b.stats.age >= 10000)
    /\ (pc = "append" \/ StepDone) =>
          /\ Ids(fought) = Ids(before)
          /\ \A k \in 1..Len(fought) :
                /\ (Life(fought[k]) <= 0 \/ fought[k].stats.age >= 10000)
                     <=> fought[k].id \notin Ids(biots)
                /\ fought[k].id \in Ids(biots) => fought[k] \in Range(biots)

\* C5 witness: the prune has removed an organism of energy exactly 0 and kept
\* another.
C5_Witness ==
    /\ pc = "append"
    /\ \E k, m \in 1..Len(fought) :
          /\ Life(fought[k]) = 0
          /\ fought[k].stats.age < 10000
          /\ fought[k].id \notin Ids(biots)
          /\ fought[m].id \in Ids(biots)

\* C6: within a step interact is called at most once for each unordered pair
\* of snapshot indices, never with equal indices, and only with the first
\* index below the second.
C6_PairsOnce ==
    /\ \A k \in 1..Len(calls) :
          /\ calls[k][1] \in 1..Len(tree) /\ calls[k][2] \in 1..Len(tree)
          /\ calls[k][1] < calls[k][2]
    /\ \A k, m \in 1..Len(calls) :
          k # m => {calls[k][1], calls[k][2]} # {calls[m][1], calls[m][2]}

\* C6 witness: three organisms at one position, all three pairs resolved.
C6_Witness ==
    /\ Len(calls) = 3
    /\ \A i \in 1..Len(tree) : tree[i].x = tree[1].x /\ tree[i].y = tree[1].y

\* C7: from the start of the update phase to the prune the live set keeps
\* its length and its organisms at their indices, which are those of the
\* snapshot; offspring are only in the side buffer, unstepped and outside
\* every combat, and join the live set after the prune, behind the
\* survivors; the buffer is empty when the step has returned.
C7_Frame ==
    /\ pc \in {"update", "interact", "retain"} =>
          /\ Len(biots) = Len(before) /\ Len(tree) = Len(before)
          /\ \A i \in 1..Len(before) :
                /\ biots[i].id = before[i].id
                /\ tree[i].idx = i
                /\ tree[i].x = before[i].stats.pos.x /\ tree[i].y = before[i].stats.pos.y
    /\ pc # "idle" =>
          /\ Ids(offsprings) \cap (Ids(biots) \cup Ids(before)) = {}
          /\ Ids(biots) \subseteq Ids(before)
          /\ \A k \in 1..Len(offsprings) :
                /\ offsprings[k].stats.age = 0
                /\ Life(offsprings[k]) = 8000 * Weight10(offsprings[k])
          /\ lastStep # <<>> => lastStep[1].idx \in 1..Len(before)
          /\ \A k \in 1..Len(calls) :
                calls[k][1] \in 1..Len(before) /\ calls[k][2] \in 1..Len(before)
    /\ pc = "idle" => offsprings = <<>>
    /\ StepDone =>
          \A i, j \in 1..Len(biots) :
             (i < j /\ biots[i].id \notin Ids(before)) => biots[j].id \notin Ids(before)

\* C7 witness: a combat is resolved while an offspring of this step waits in
\* the side buffer.
C7_Witness ==
    /\ pc = "interact"
    /\ offsprings # <<>>
    /\ lastFight # <<>>
    /\ biots # lastFight[1].pre

\* C8 as stated: after the position update of Biot::step the position lies
\* in [0, width) x [0, height) and is congruent to position + velocity, and
\* every organism that has been stepped has its position inside the world.
C8_AsStated ==
    /\ lastStep # <<>> =>
          LET c == lastStep[1]
              p == biots[c.idx].stats.pos
          IN  /\ ~p.nan
              /\ ~c.pre.stats.speed.nan
              /\ p.x >= 0 /\ p.x < Width /\ p.y >= 0 /\ p.y < Height
              /\ (p.x - (c.pre.stats.pos.x + c.pre.stats.speed.x)) % Width = 0
              /\ (p.y - (c.pre.stats.pos.y + c.pre.stats.speed.y)) % Height = 0
    /\ StepDone =>
          \A k \in 1..Len(biots) :
             biots[k].id \in Ids(before) =>
                LET p == biots[k].stats.pos
                IN  ~p.nan /\ p.x >= 0 /\ p.x < Width /\ p.y >= 0 /\ p.y < Height

\* The traits counted from a genome: 0.1 per Attack, Defense, Photosynthesis
\* and Motion gene, 10.0 per Intelligence gene.
Recount(g) ==
    [attack |-> Cardinality({i \in DOMAIN g : g[i] = 1}),
     defense |-> Cardinality({i \in DOMAIN g : g[i] = 2}),
     photosynthesis |-> Cardinality({i \in DOMAIN g : g[i] = 3}),
     motion |-> Cardinality({i \in DOMAIN g : g[i] = 4}),
     intelligence |-> 100 * Cardinality({i \in DOMAIN g : g[i] = 5})]

\* C9: every organism of the live set and of the side buffer has the
\* properties counted from its own genome; adjust_to_genome gives them from
\* any previous trait values, and gives the same when applied again; no
\* weight is negative.
C9_Properties ==
    \A b \in Range(biots) \cup Range(offsprings) :
       /\ Len(b.genome) = 13
       /\ b.properties = Recount(b.genome)
       /\ Weight10(b) >= 0 /\ weight(b.properties) = Weight10(b)
       /\ \A c \in Range(biots) \cup Range(offsprings) :
             LET once == adjust_to_genome(c.properties, b.genome)
             IN  once = Recount(b.genome) /\ adjust_to_genome(once, b.genome) = once

\* C9 witness: an offspring whose mutation changed its genome and traits is in
\* the side buffer beside its parent.
C9_Witness ==
    /\ lastStep # <<>>
    /\ lastStep[1].off # <<>>
    /\ lastStep[1].off[1].genome # lastStep[1].pre.genome
    /\ lastStep[1].off[1].properties # lastStep[1].pre.properties
    /\ lastStep[1].pre.properties # PropertiesDefault

\* C10 as stated: an organism whose energy a combat of the step set to 0 is
\* gone after that step's prune.
C10_AsStated ==
    (pc = "append" \/ StepDone) => lost \cap Ids(biots) = {}

\* C10 (amended): an organism whose energy a combat of the step set to 0 and
\* that did not afterwards, in the same step, win a combat against an
\* organism of positive energy is gone after that step's prune.
C10_LoserPruned ==
    (pc = "append" \/ StepDone) => zeroed \cap Ids(biots) = {}

\* C10 witness: a loser that took part in two combats of the step has been
\* pruned.
C10_Witness ==
    /\ pc = "append"
    /\ \E k \in 1..Len(fought) :
          /\ fought[k].id \in zeroed
          /\ fought[k].id \notin Ids(biots)
          /\ Cardinality({m \in 1..Len(calls) : k \in {calls[m][1], calls[m][2]}}) >= 2

\* The pair <<a, b>> comes before <<c, d>> in ascending index-pair order.
PairBefore(p, q) == p[1] < q[1] \/ (p[1] = q[1] /\ p[2] < q[2])

RECURSIVE ResolveAscending(_, _, _)
\* The energies a resolution of the colliding pairs of the snapshot in
\* ascending index-pair order leads to, each reading what the earlier left.
ResolveAscending(bs, i, j) ==
    IF i > Len(bs) THEN bs
    ELSE IF j > Len(bs) THEN ResolveAscending(bs, i + 1, i + 2)
    ELSE ResolveAscending(IF Snap2(i, j) <= 50 * 100 THEN interact(bs, i, j) ELSE bs, i, j + 1)

\* C11 as stated: the calls of interact within a step come in ascending
\* index-pair order, and the energies after the interaction phase are those
\* the ascending resolution of the colliding pairs gives from the energies
\* after the update phase, whatever the order of the index's iteration.
C11_AsStated ==
    /\ \A k, m \in 1..Len(calls) : k < m => PairBefore(calls[k], calls[m])
    /\ pc = "retain" => biots = ResolveAscending(stepped, 1, 2)

\* The points of the snapshot, the organism's own included, within squared
\* distance d2 (world units) of the organism's position.
PointsWithin(b, d2) ==
    {n \in 1..Len(tree) :
        (tree[n].x - b.stats.pos.x) * (tree[n].x - b.stats.pos.x)
        + (tree[n].y - b.stats.pos.y) * (tree[n].y - b.stats.pos.y) <= d2 * 100}

\* C12: a call of Biot::step returns an offspring exactly when the organism
\* is adult (energy >= 4 * base_life) and the snapshot holds fewer than 6
\* points or its 6th nearest point, the organism's own counting first, is at
\* squared distance above 200, that is, unless 5 other organisms lie within
\* squared distance 200, the distance exactly 200 included.
C12_Crowding ==
    lastStep # <<>> =>
       LET c == lastStep[1]
       IN  (Len(c.off) = 1) <=>
              /\ Life(c.pre) >= Threshold(c.pre)
              /\ (Len(tree) < 6 \/ Cardinality(PointsWithin(c.pre, 200)) <= 5)

\* C12 witness: an adult with 6 points in the snapshot, its 6th nearest at
\* squared distance exactly 200, has been stepped and has not reproduced.
C12_Witness ==
    /\ lastStep # <<>>
    /\ LET c == lastStep[1]
       IN  /\ Life(c.pre) >= Threshold(c.pre)
           /\ Weight10(c.pre) > 0
           /\ Len(tree) >= 6
           /\ Cardinality(PointsWithin(c.pre, 200)) = 6
           /\ Cardinality(PointsWithin(c.pre, 199)) = 2
           /\ c.off = <<>>

\* The snapshot points a feeding search of organism i can select: another
\* index, within squared distance intelligence^2 * 1600, of an organism that
\* i is stronger than.
Prey(i) ==
    LET int == biots[i].properties.intelligence
    IN  {n \in 1..Len(tree) : /\ n # i
                              /\ Snap2(i, n) <= int * int * 1600
                              /\ Stronger(before[i], before[n])}

\* dir is a unit vector (length 1000, within rounding) along (dx, dy).
PointsAlong(dir, dx, dy) ==
    /\ ~dir.nan
    /\ dir.x * dir.x + dir.y * dir.y >= 990000
    /\ dir.x * dir.x + dir.y * dir.y <= 1010000
    /\ dir.x * dx + dir.y * dy > 0
    /\ (dir.x * dy - dir.y * dx) <= (IF dx < 0 THEN -dx ELSE dx) + (IF dy < 0 THEN -dy ELSE dy)
    /\ (dir.y * dx - dir.x * dy) <= (IF dx < 0 THEN -dx ELSE dx) + (IF dy < 0 THEN -dy ELSE dy)

\* C13 as stated: the organism a call of Biot::step is made on is given a
\* feed direction exactly when its intelligence is above 0 and the snapshot
\* holds another point, possibly at its own position, within squared distance
\* intelligence^2 * 1600 of an organism it is stronger than; the direction is
\* then the unit vector from the organism to a nearest such point.
C13_AsStated ==
    lastStep # <<>> =>
       LET c == lastStep[1]
           i == c.idx
       IN  /\ (c.feed # <<>>) <=> (c.pre.properties.intelligence > 0 /\ Prey(i) # {})
           /\ c.feed # <<>> =>
                 \E n \in Prey(i) :
                    /\ \A m \in Prey(i) : Snap2(i, n) <= Snap2(i, m)
                    /\ PointsAlong(c.feed[1], tree[n].x - tree[i].x, tree[n].y - tree[i].y)

\* C14 as stated: the feed direction supplied to Biot::step is always a
\* well-defined unit vector, also when the selected neighbour has the
\* organism's own position: no zero-length vector is normalized.
C14_AsStated ==
    (lastStep # <<>> /\ lastStep[1].feed # <<>>) =>
       LET dir == lastStep[1].feed[1]
       IN  /\ ~dir.nan
           /\ dir.x * dir.x + dir.y * dir.y >= 990000
           /\ dir.x * dir.x + dir.y * dir.y <= 1010000

\* C15: a step adds exactly 1 to the age of every organism that is in the
\* live set when it begins, whatever else the step does to it; offspring
\* wait in the side buffer and enter the live set with age 0; an organism
\* that begins a step at age 9999 or more is gone when the step returns, and
\* between steps no organism of the live set has age >= 10000.
C15_Ageing ==
    /\ \A k \in 1..Len(offsprings) : offsprings[k].stats.age = 0
    /\ (pc = "update" /\ idx > Len(biots)) \/ pc \in {"interact", "retain"} =>
          \A k \in 1..Len(before) : biots[k].stats.age = before[k].stats.age + 1
    /\ (pc = "append" \/ StepDone) =>
          /\ Len(fought) = Len(before)
          /\ \A k \in 1..Len(before) :
                /\ fought[k].id = before[k].id
                /\ fought[k].stats.age = before[k].stats.age + 1
          /\ \A b \in Range(biots) :
                b.id \in Ids(before) => b \in Range(fought)
    /\ StepDone =>
          /\ \A b \in Range(biots) : b.id \notin Ids(before) => b.stats.age = 0
          /\ \A k \in 1..Len(before) :
                before[k].stats.age >= 9999 => before[k].id \notin Ids(biots)
    /\ pc = "idle" => \A b \in Range(biots) : b.stats.age < 10000

\* C15 witness: an organism that began the step at age 9999 with positive
\* energy has been removed at age 10000, its energy still positive.
C15_Witness ==
    /\ StepDone
    /\ \E k \in 1..Len(before) :
          /\ before[k].stats.age = 9999
          /\ fought[k].stats.age = 10000
          /\ Life(fought[k]) > 0
          /\ before[k].id \notin Ids(biots)

\* C16: a call of Biot::step leaves the genome and the properties of the
\* organism it is made on as they were and changes no other organism of the
\* live set nor an offspring already in the buffer; a call of Biot::interact
\* changes nothing but the energy of the two organisms given; and an
\* organism keeps its genome and properties through every step it lives.
C16_Frame ==
    [][/\ (pc = "update" /\ idx' = idx + 1) =>
             /\ Len(biots') = Len(biots)
             /\ biots'[idx].id = biots[idx].id
             /\ biots'[idx].genome = biots[idx].genome
             /\ biots'[idx].properties = biots[idx].properties
             /\ \A k \in 1..Len(biots) : k # idx => biots'[k] = biots[k]
             /\ \A k \in 1..Len(offsprings) : offsprings'[k] = offsprings[k]
       /\ (pc = "interact" /\ calls' # calls) =>
             LET p == calls'[Len(calls')]
             IN  /\ Len(biots') = Len(biots)
                 /\ offsprings' = offsprings
                 /\ \A k \in 1..Len(biots) :
                       /\ k \notin {p[1], p[2]} => biots'[k] = biots[k]
                       /\ biots'[k] = [biots[k] EXCEPT !.stats.life = biots'[k].stats.life]
       /\ \A b \in Range(biots) \cup Range(offsprings) :
             \A c \in Range(biots') \cup Range(offsprings') :
                b.id = c.id => (c.genome = b.genome /\ c.properties = b.properties)
      ]_vars

\* C16 witness: beside another organism, a parent whose offspring was mutated
\* has come out of its step with its own genome.
C16_Witness ==
    /\ lastStep # <<>>
    /\ Len(biots) >= 2
    /\ LET c == lastStep[1]
       IN  /\ c.off # <<>>
           /\ c.off[1].genome # c.pre.genome
           /\ biots[c.idx].genome = c.pre.genome
           /\ biots[c.idx].stats # c.pre.stats

\* C17 as stated: after BiotCollection::new and after every step, every
\* organism of the live set, the offspring appended in that step included,
\* has energy > 0 and age < 10000.
C17_AsStated ==
    pc = "idle" => \A b \in Range(biots) : Life(b) > 0 /\ b.stats.age < 10000

\* C18 as stated: no call of Biot::interact made within a step raises the
\* sum of the two energies, and when the pair fights the stronger organism's
\* energy is not lowered and the other's is left at 0.
C18_AsStated ==
    lastFight # <<>> =>
       LET f == lastFight[1]
       IN  /\ Life(biots[f.i]) + Life(biots[f.j]) <= Life(f.pre[f.i]) + Life(f.pre[f.j])
           /\ \A w, l \in {f.i, f.j} :
                 (w # l /\ Touching(f.pre[w], f.pre[l]) /\ Stronger(f.pre[w], f.pre[l])
                        /\ ~Stronger(f.pre[l], f.pre[w]))
                    => /\ Life(biots[w]) >= Life(f.pre[w])
                       /\ Life(biots[l]) = 0

\* The properties of every genome as far as strength goes: a Attack genes and
\* d Defense genes among the 13.
StrengthChoices ==
    {[properties |->
         adjust_to_genome(PropertiesDefault,
            [i \in 1..GenomeLen |-> IF i <= a THEN GeneAttack
                                    ELSE IF i <= a + d THEN GeneDefense ELSE GeneNone])] :
        a \in 0..GenomeLen, d \in 0..GenomeLen}

\* C19: of two organisms with properties derived from genomes never each is
\* stronger than the other, and none is stronger than itself; so a call of
\* interact that reaches the if / else-if (the pair is in contact) moves
\* energy, 0.8 of the loser's to the winner and the loser left at 0, when
\* exactly one is stronger, and leaves both energies when none is; the case
\* of both does not occur.
C19_Strength ==
    /\ (pc = "idle" /\ ticks = 0) =>
          \A a, b \in StrengthChoices :
             /\ ~(is_stronger(a, b) /\ is_stronger(b, a))
             /\ ~is_stronger(a, a)
    /\ \A a, b \in Range(biots) \cup Range(offsprings) :
          /\ ~(is_stronger(a, b) /\ is_stronger(b, a))
          /\ ~is_stronger(a, a)
          /\ is_stronger(a, b) <=> Stronger(a, b)
    /\ lastFight # <<>> =>
          LET f == lastFight[1]
              a == f.pre[f.i]
              b == f.pre[f.j]
          IN  /\ (Touching(a, b) /\ is_stronger(a, b))
                    => Life(biots[f.i]) = Life(a) + Part08(Life(b)) /\ Life(biots[f.j]) = 0
              /\ (Touching(a, b) /\ is_stronger(b, a))
                    => Life(biots[f.j]) = Life(b) + Part08(Life(a)) /\ Life(biots[f.i]) = 0
              /\ (~is_stronger(a, b) /\ ~is_stronger(b, a))
                    => Life(biots[f.i]) = Life(a) /\ Life(biots[f.j]) = Life(b)

\* C19 witness: a pair in contact of which only the second is stronger has
\* been resolved by the else-if branch, and another pair of equal strength
\* is in the live set.
C19_Witness ==
    /\ lastFight # <<>>
    /\ LET f == lastFight[1]
       IN  /\ Touching(f.pre[f.i], f.pre[f.j])
           /\ is_stronger(f.pre[f.j], f.pre[f.i])
           /\ Life(f.pre[f.i]) > 0
           /\ Life(biots[f.i]) = 0
           /\ Life(biots[f.j]) > Life(f.pre[f.j])
    /\ \E k, m \in 1..Len(biots) :
          k # m /\ biots[k].properties.attack = biots[m].properties.attack
                /\ biots[k].properties.attack > 0

\* C20: a call of Biot::step evaluates 7 * motion / weight only when its draw
\* is below 0.2 * motion, which no draw is for an organism without motion;
\* so the divisor is never 0, and an organism of weight 0 comes out of the
\* call with its velocity only decayed, without an impulse.
C20_NoZeroWeight ==
    lastStep # <<>> =>
       LET c == lastStep[1]
           b == c.pre
       IN  /\ \A r \in Draws :
                 (50 * r < b.properties.motion * DrawDen)
                    => (b.properties.motion > 0 /\ weight(b.properties) > 0)
           /\ Weight10(b) = 0 =>
                 /\ b.properties.motion = 0
                 /\ biots[c.idx].stats.speed =
                       (IF b.stats.speed.nan THEN b.stats.speed
                        ELSE [nan |-> FALSE, x |-> TDiv(b.stats.speed.x * 9, 10),
                              y |-> TDiv(b.stats.speed.y * 9, 10)])

\* C20 witness: an organism of weight 0 that moves (an offspring still
\* carrying its birth impulse) has been stepped.
C20_Witness ==
    /\ lastStep # <<>>
    /\ LET b == lastStep[1].pre
       IN  /\ Weight10(b) = 0
           /\ ~b.stats.speed.nan
           /\ b.stats.speed.x # 0
           /\ ~biots[lastStep[1].idx].stats.speed.nan
           /\ biots[lastStep[1].idx].stats.speed # b.stats.speed
====
